---- MODULE Spec2Model ----
(***************************************************************************)
(* Portfolio API (src/main.py, src/schemas.py): list/create endpoints over *)
(* a document store and the keyword-matching assistant endpoint.           *)
(*                                                                         *)
(* Text is a sequence of one-character strings.  Three glyphs are written  *)
(* with a name: "nl" is the newline, "tab" the tabulator and "bullet" the  *)
(* U+2022 separator glyph.  The two fixed sentences of the assistant's     *)
(* replies are carried as one indivisible glyph each.                      *)
(***************************************************************************)
EXTENDS Integers, Sequences, FiniteSets, TLC

(***************************************************************************)
(* Bounds of the model.                                                    *)
(***************************************************************************)
MaxContent == 2     \* content documents the create endpoints insert
MaxListDocs == 3    \* content documents of the stores SpecList starts from
MaxChat == 2        \* Chat documents in the store when a chat request may still start
ClockSpan == 1      \* clock ticks that pass
MaxRankDocs == 4    \* content documents of the stores SpecRank starts from

(***************************************************************************)
(* Program constants.                                                      *)
(***************************************************************************)
FetchLimit == 10    \* [:10] of every fetched collection
TopN == 3           \* [:3] of the ranked corpus
SnippetCut == 200   \* p[:200] of every snippet part
MinTokenLen == 2    \* len(t) > 2

Workers == {1, 2}    \* the chat requests that can be in flight together

(***************************************************************************)
(* Python's str and list operations, on sequences.                         *)
(***************************************************************************)
Whitespace == {" ", "tab", "nl"}

\* the sequence s with every element evaluated, once
list(s) == s \o <<>>

Take(s, n) == SubSeq(s, 1, IF n < Len(s) THEN n ELSE Len(s))

lower_char(c) ==
  CASE c = "A" -> "a"
    [] c = "B" -> "b"
    [] OTHER -> c

lower(s) == list([i \in 1..Len(s) |-> lower_char(s[i])])

RECURSIVE lstrip(_)
lstrip(s) ==
  IF s # <<>> /\ Head(s) \in Whitespace THEN lstrip(Tail(s)) ELSE s

RECURSIVE rstrip(_)
rstrip(s) ==
  IF s # <<>> /\ s[Len(s)] \in Whitespace
    THEN rstrip(SubSeq(s, 1, Len(s) - 1))
    ELSE s

RECURSIVE strip_blanks(_)
\* s.strip(" "): only the space is stripped
strip_blanks(s) ==
  IF s # <<>> /\ Head(s) = " " THEN strip_blanks(Tail(s))
  ELSE IF s # <<>> /\ s[Len(s)] = " " THEN strip_blanks(SubSeq(s, 1, Len(s) - 1))
  ELSE s

strip(s) == rstrip(lstrip(s))

\* s.split(): the maximal runs of non-whitespace characters, in order
RECURSIVE split_from(_, _, _)
split_from(s, i, word) ==
  IF i > Len(s)
    THEN IF word = <<>> THEN <<>> ELSE <<word>>
    ELSE IF s[i] \in Whitespace
      THEN (IF word = <<>> THEN <<>> ELSE <<word>>) \o split_from(s, i + 1, <<>>)
      ELSE split_from(s, i + 1, Append(word, s[i]))

split(s) == split_from(s, 1, <<>>)

\* sep.join(parts)
RECURSIVE join(_, _)
join(sep, parts) ==
  IF parts = <<>> THEN <<>>
  ELSE IF Len(parts) = 1 THEN parts[1]
  ELSE parts[1] \o sep \o join(sep, Tail(parts))

\* t in text
IsSubstring(t, text) ==
  \E i \in 0..(Len(text) - Len(t)) : SubSeq(text, i + 1, i + Len(t)) = t

RECURSIVE Filter(_, _)
Filter(s, keep) ==
  IF s = <<>> THEN <<>>
  ELSE (IF Head(s) \in keep THEN <<Head(s)>> ELSE <<>>) \o Filter(Tail(s), keep)

\* Python's ordering of str: by code point, a proper prefix first
CodePoint(c) ==
  CASE c = "." -> 46
    [] c = "0" -> 48 [] c = "1" -> 49 [] c = "2" -> 50 [] c = "3" -> 51
    [] c = "4" -> 52 [] c = "5" -> 53 [] c = "6" -> 54 [] c = "7" -> 55
    [] c = "8" -> 56 [] c = "9" -> 57

RECURSIVE StrLess(_, _)
StrLess(a, b) ==
  IF b = <<>> THEN FALSE
  ELSE IF a = <<>> THEN TRUE
  ELSE IF Head(a) = Head(b) THEN StrLess(Tail(a), Tail(b))
  ELSE CodePoint(Head(a)) < CodePoint(Head(b))

(***************************************************************************)
(* Values of the store: datetimes and object identifiers.                  *)
(* The clock counts half seconds; the date, hour and minute of every       *)
(* datetime of the model are the same and are left out of isoformat().     *)
(***************************************************************************)
StartTick == 19     \* the clock's reading at start: second 9, 500000 us

Ticks == StartTick..(StartTick + ClockSpan)

DateTime(tick) == [second |-> tick \div 2, microsecond |-> (tick % 2) * 500000]

Micros(dt) == dt.second * 1000000 + dt.microsecond

Digit(d) == <<"0", "1", "2", "3", "4", "5", "6", "7", "8", "9">>[d + 1]

\* n in decimal, zero-padded to width digits
RECURSIVE Decimal(_, _)
Decimal(n, width) ==
  IF width = 0 THEN <<>> ELSE Append(Decimal(n \div 10, width - 1), Digit(n % 10))

\* datetime.isoformat(): SS, and .ffffff only when the microseconds are not 0
isoformat(dt) ==
  Decimal(dt.second, 2)
    \o (IF dt.microsecond = 0 THEN <<>> ELSE <<".">> \o Decimal(dt.microsecond, 6))

ObjectId(coll, n) == [coll |-> coll, seq |-> n]

\* str(ObjectId): a tag of the collection and the counter
str_id(oid) ==
  (CASE oid.coll = "blogpost" -> <<"b">>
     [] oid.coll = "casestudy" -> <<"c">>
     [] oid.coll = "project" -> <<"p">>
     [] oid.coll = "chat" -> <<"h">>)
    \o Decimal(oid.seq, 2)

None == [none |-> TRUE]

(***************************************************************************)
(* schemas.py: the request schemas.  A request body is a record that may   *)
(* lack fields.                                                            *)
(***************************************************************************)
Url(scheme, host) == [scheme |-> scheme, host |-> host]

IsHttpUrl(u) == u.scheme \in {"http", "https"} /\ u.host # ""

BlogPost ==
  [required |-> {"title", "content"},
   defaults |-> [tags |-> <<>>, cover_url |-> None, author |-> None],
   url |-> {"cover_url"}, url_list |-> {}]

CaseStudy ==
  [required |-> {"title", "summary", "problem", "solution", "impact"},
   defaults |-> [images |-> <<>>, links |-> <<>>],
   url |-> {}, url_list |-> {"images", "links"}]

\* Project with description taken for an optional field
Project_description_optional ==
  [required |-> {"title"},
   defaults |-> [description |-> <<>>, tech_stack |-> <<>>, repo_url |-> None,
                 live_url |-> None, featured |-> FALSE],
   url |-> {"repo_url", "live_url"}, url_list |-> {}]

Project ==
  [required |-> {"title", "description"},
   defaults |-> [tech_stack |-> <<>>, repo_url |-> None, live_url |-> None,
                 featured |-> FALSE],
   url |-> {"repo_url", "live_url"}, url_list |-> {}]

\* the validation FastAPI runs on the body before it calls the handler
IsValid(schema, body) ==
  /\ schema.required \subseteq DOMAIN body
  /\ \A k \in schema.url \cap DOMAIN body : IsHttpUrl(body[k])
  /\ \A k \in schema.url_list \cap DOMAIN body :
       \A i \in DOMAIN body[k] : IsHttpUrl(body[k][i])

\* the validated model: the body's fields, the defaults for the absent ones
Parse(schema, body) ==
  [k \in schema.required \cup DOMAIN schema.defaults |->
     IF k \in DOMAIN body THEN body[k] ELSE schema.defaults[k]]

(***************************************************************************)
(* main.py: serialisation and the list orders.                             *)
(***************************************************************************)
DateFields == {"created_at"}    \* the fields whose value has isoformat()

\* serialize_doc that stringifies the identifier under its old key
serialize_doc_keeps_key(doc) ==
  [k \in DOMAIN doc |->
     IF k = "_id" THEN str_id(doc._id)
     ELSE IF k \in DateFields THEN isoformat(doc[k])
     ELSE doc[k]]

serialize_doc(doc) ==
  [k \in (DOMAIN doc \ {"_id"}) \cup (IF "_id" \in DOMAIN doc THEN {"id"} ELSE {}) |->
     IF k = "id" THEN str_id(doc._id)
     ELSE IF k \in DateFields THEN isoformat(doc[k])
     ELSE doc[k]]

Get(x, k, default) == IF k \in DOMAIN x THEN x[k] ELSE default

\* a sort key is a pair <<number, str>>, compared as Python compares tuples
KeyLess(a, b) == a[1] < b[1] \/ (a[1] = b[1] /\ StrLess(a[2], b[2]))

\* list.sort / sorted: stable, also with reverse=True; key[i] is the key of
\* seq[i]
sorted(seq, key, reverse) ==
  LET n == Len(seq)
      before(i, j) ==
        IF reverse THEN KeyLess(key[j], key[i]) ELSE KeyLess(key[i], key[j])
      pos == list([i \in 1..n |-> 1 + Cardinality({j \in 1..n :
                                        \/ before(j, i)
                                        \/ (~before(i, j) /\ j < i)})])
  IN  list([k \in 1..n |-> seq[CHOOSE i \in 1..n : pos[i] = k]])

serialize_all(docs) == list([i \in 1..Len(docs) |-> serialize_doc(docs[i])])

\* lambda x: x.get("created_at", "")
created_at_key(x) == <<0, Get(x, "created_at", <<>>)>>

\* lambda x: (not x.get("featured", False), x.get("created_at", ""))
featured_key(x) ==
  <<IF Get(x, "featured", FALSE) THEN 0 ELSE 1, Get(x, "created_at", <<>>)>>

\* the descending order got by sorting ascending and reversing the result
list_blog_posts_reversed(docs) ==
  LET items == serialize_all(docs)
      oldest == sorted(items, list([i \in 1..Len(items) |-> created_at_key(items[i])]),
                       FALSE)
  IN  [i \in 1..Len(oldest) |-> oldest[Len(oldest) + 1 - i]]

list_blog_posts(docs) ==
  LET items == serialize_all(docs)
  IN  sorted(items, list([i \in 1..Len(items) |-> created_at_key(items[i])]), TRUE)

list_case_studies(docs) ==
  LET items == serialize_all(docs)
  IN  sorted(items, list([i \in 1..Len(items) |-> created_at_key(items[i])]), TRUE)

\* the order of the comment on line 106: featured first, then created_at desc
list_projects_created_desc(docs) ==
  LET items == serialize_all(docs)
      newest == sorted(items, list([i \in 1..Len(items) |-> created_at_key(items[i])]),
                       TRUE)
  IN  sorted(newest,
             list([i \in 1..Len(newest) |-> <<featured_key(newest[i])[1], <<>>>>]),
             FALSE)

list_projects(docs) ==
  LET items == serialize_all(docs)
  IN  sorted(items, list([i \in 1..Len(items) |-> featured_key(items[i])]), FALSE)

(***************************************************************************)
(* main.py: the assistant's pure steps.                                    *)
(***************************************************************************)
ListFields == {"tags", "tech_stack"}    \* the snippet fields that hold a list

BlogFields == <<"title", "tags", "content">>
CaseFields == <<"title", "summary", "impact">>
ProjectFields == <<"title", "description", "tech_stack">>

\* one entry of snippet_parts for field f of the serialised document s
snippet_part(s, f) ==
  IF f \notin DOMAIN s THEN <<>>
  ELSE IF f \in ListFields THEN <<join(<<",", " ">>, s[f])>>
  ELSE <<s[f]>>

RECURSIVE snippet_parts(_, _)
snippet_parts(s, fields) ==
  IF fields = <<>> THEN <<>>
  ELSE snippet_part(s, Head(fields)) \o snippet_parts(s, Tail(fields))

RECURSIVE NonEmptyCut(_)
NonEmptyCut(parts) ==
  IF parts = <<>> THEN <<>>
  ELSE (IF Head(parts) = <<>> THEN <<>> ELSE <<Take(Head(parts), SnippetCut)>>)
         \o NonEmptyCut(Tail(parts))

snippet(s, fields) ==
  join(<<" ", "bullet", " ">>, NonEmptyCut(snippet_parts(s, fields)))

\* fetch_titles without its store call: docs is what get_documents returned
fetch_titles(docs, fields) ==
  list([i \in 1..Len(docs) |->
          LET s == serialize_doc(docs[i])
          IN  [k \in DOMAIN s \cup {"snippet"} |->
                 IF k = "snippet" THEN snippet(s, fields) ELSE s[k]]])

tokens(msg) ==
  LET words == split(msg)
  IN  {lower(words[i]) : i \in {j \in 1..Len(words) : Len(words[j]) > MinTokenLen}}

item_text(item) ==
  lower(Get(item, "title", <<>>) \o <<" ">> \o Get(item, "snippet", <<>>))

score(item, toks) == Cardinality({t \in toks : IsSubstring(t, item_text(item))})

\* best of the items that match a token at all
best_matching(corpus, toks) ==
  LET kept == Filter(corpus, {corpus[i] : i \in {j \in 1..Len(corpus) :
                                                  score(corpus[j], toks) > 0}})
  IN  Take(sorted(kept, list([i \in 1..Len(kept) |-> <<score(kept[i], toks), <<>>>>]),
                  TRUE),
           TopN)

\* corpus[:3], the sort left out
best_in_fetch_order(corpus, toks) == Take(corpus, TopN)

\* sorted(corpus, key=score, reverse=True)[:3]
best(corpus, toks) ==
  Take(sorted(corpus, list([i \in 1..Len(corpus) |-> <<score(corpus[i], toks), <<>>>>]),
              TRUE),
       TopN)

GenericReply == <<"Thanks for reaching out! ... outline an approach.">>
HighlightsHeader == <<"Here are some highlights that match what you asked:">>
ClosingLine == <<"Want a deeper dive or a quick estimate? ... step-by-step.">>

\* the line without the snippet
item_line_title_only(item) ==
  <<"-", " ">> \o Get(item, "title", <<"Untitled">>) \o <<":", " ">>

item_line(item) ==
  <<"-", " ">> \o Get(item, "title", <<"Untitled">>) \o <<":", " ">>
    \o Get(item, "snippet", <<>>)

reply_text(selected) ==
  IF selected = <<>> THEN GenericReply
  ELSE join(<<"nl">>,
            <<HighlightsHeader>>
              \o [i \in 1..Len(selected) |-> item_line(selected[i])]
              \o <<ClosingLine>>)

(***************************************************************************)
(* The requests the clients send.                                          *)
(***************************************************************************)
Aba == <<"A", "b", "a">>
bab == <<"b", "a", "b">>
bb == <<"b", "b">>

GoodUrl == Url("https", "example.org")
BadUrl == Url("", "")

BlogBodies ==
  { [title |-> Aba, content |-> bb],
    [title |-> bb, content |-> <<>>, tags |-> <<bab, Aba>>, cover_url |-> GoodUrl],
    [content |-> bb],
    [title |-> Aba, content |-> bb, cover_url |-> BadUrl] }

CaseBodies ==
  { [title |-> bab, summary |-> Aba, problem |-> bb, solution |-> bb, impact |-> <<>>],
    [title |-> bb, summary |-> bb, problem |-> bb, solution |-> bb, impact |-> bb,
     images |-> <<GoodUrl>>, links |-> [site |-> GoodUrl]],
    [title |-> bab, summary |-> Aba, problem |-> bb, solution |-> bb],
    [title |-> bab, summary |-> Aba, problem |-> bb, solution |-> bb, impact |-> bb,
     links |-> [site |-> BadUrl]] }

ProjectBodies ==
  { [title |-> Aba, description |-> bb],
    [title |-> bab, description |-> Aba, tech_stack |-> <<bb>>, featured |-> TRUE],
    [title |-> Aba],
    [title |-> Aba, description |-> bb, repo_url |-> BadUrl] }

Messages ==
  { <<>>,
    <<" ", "tab">>,
    <<" ">> \o Aba \o <<" ">> \o bb \o <<" ">>,
    <<"a", "b", "a", " ">> \o bab \o <<" ", "A", "B", "A">> }

(***************************************************************************)
(* The state: the store's four collections, the clock, every chat          *)
(* request's position and locals, the response of the step just taken, and *)
(* the identifiers the create endpoints have returned.                     *)
(***************************************************************************)
VARIABLES blogpost, casestudy, project, chat, now,
          pc, req_message, user_msg, blogs, cases, projs, best_items, resp, issued

store == <<blogpost, casestudy, project, chat>>
content == <<blogpost, casestudy, project>>
locals == <<pc, req_message, user_msg, blogs, cases, projs, best_items>>
vars == <<blogpost, casestudy, project, chat, now,
          pc, req_message, user_msg, blogs, cases, projs, best_items, resp, issued>>

NoResponse == [op |-> "none", status |-> 0]

Response(op, status, request, body) ==
  [op |-> op, status |-> status, request |-> request, body |-> body]

\* the unhandled server error of a failed store call; after_write says whether
\* the request had written to the store before
ServerError(op, request, after_write) ==
  [op |-> op, status |-> 500, request |-> request, after_write |-> after_write]

InitLocals ==
  /\ pc = [w \in Workers |-> "idle"]
  /\ req_message = [w \in Workers |-> <<>>]
  /\ user_msg = [w \in Workers |-> <<>>]
  /\ blogs = [w \in Workers |-> <<>>]
  /\ cases = [w \in Workers |-> <<>>]
  /\ projs = [w \in Workers |-> <<>>]
  /\ best_items = [w \in Workers |-> <<>>]
  /\ resp = NoResponse

Init ==
  /\ blogpost = <<>>
  /\ casestudy = <<>>
  /\ project = <<>>
  /\ chat = <<>>
  /\ now = StartTick
  /\ issued = {}
  /\ InitLocals

(***************************************************************************)
(* database.py: the store's two operations.                                *)
(***************************************************************************)
\* the document create_document inserts: the data, the store's identifier,
\* the creation timestamp
new_document(coll, docs, data, tick) ==
  [k \in DOMAIN data \cup {"_id", "created_at"} |->
     IF k = "_id" THEN ObjectId(coll, Len(docs) + 1)
     ELSE IF k = "created_at" THEN DateTime(tick)
     ELSE data[k]]

\* the collection after create_document; tick is the clock's reading the call
\* took before it inserts
create_document(coll, docs, data, tick) ==
  Append(docs, new_document(coll, docs, data, tick))

\* what create_document returns
inserted_id(docs) == str_id(docs[Len(docs)]._id)

\* find() without a filter: every document, in insertion order
get_documents(docs) == docs

ContentCount == Len(blogpost) + Len(casestudy) + Len(project)

\* the readings a create_document call that inserts now can have taken
Stamps == StartTick..now

Tick ==
  /\ now < StartTick + ClockSpan
  /\ now' = now + 1
  /\ resp' = NoResponse
  /\ UNCHANGED <<store, locals, issued>>

(***************************************************************************)
(* main.py: the list and create endpoints.  ok says whether the store call *)
(* of the step succeeds; a failure propagates as a server error.  A body   *)
(* that fails validation never reaches the handler.                        *)
(***************************************************************************)
ListBlogPosts ==
  \E ok \in BOOLEAN :
    /\ resp' = IF ok
                 THEN Response("list_blog_posts", 200, <<>>, list_blog_posts(get_documents(blogpost)))
                 ELSE ServerError("list_blog_posts", <<>>, FALSE)
    /\ UNCHANGED <<store, now, locals, issued>>

ListCaseStudies ==
  \E ok \in BOOLEAN :
    /\ resp' = IF ok
                 THEN Response("list_case_studies", 200, <<>>, list_case_studies(get_documents(casestudy)))
                 ELSE ServerError("list_case_studies", <<>>, FALSE)
    /\ UNCHANGED <<store, now, locals, issued>>

ListProjects ==
  \E ok \in BOOLEAN :
    /\ resp' = IF ok
                 THEN Response("list_projects", 200, <<>>, list_projects(get_documents(project)))
                 ELSE ServerError("list_projects", <<>>, FALSE)
    /\ UNCHANGED <<store, now, locals, issued>>

CreateBlogPost ==
  \E body \in BlogBodies :
    IF ~IsValid(BlogPost, body)
      THEN /\ resp' = Response("create_blog_post", 422, body, <<>>)
           /\ UNCHANGED <<store, now, locals, issued>>
      ELSE \/ /\ resp' = ServerError("create_blog_post", body, FALSE)
              /\ UNCHANGED <<store, now, locals, issued>>
           \/ /\ ContentCount < MaxContent
              /\ \E tick \in Stamps :
                   blogpost' = create_document("blogpost", blogpost, Parse(BlogPost, body), tick)
              /\ resp' = Response("create_blog_post", 201, body, [id |-> inserted_id(blogpost')])
              /\ issued' = issued \cup {<<"blogpost", inserted_id(blogpost')>>}
              /\ UNCHANGED <<casestudy, project, chat, now, locals>>

CreateCaseStudy ==
  \E body \in CaseBodies :
    IF ~IsValid(CaseStudy, body)
      THEN /\ resp' = Response("create_case_study", 422, body, <<>>)
           /\ UNCHANGED <<store, now, locals, issued>>
      ELSE \/ /\ resp' = ServerError("create_case_study", body, FALSE)
              /\ UNCHANGED <<store, now, locals, issued>>
           \/ /\ ContentCount < MaxContent
              /\ \E tick \in Stamps :
                   casestudy' = create_document("casestudy", casestudy, Parse(CaseStudy, body), tick)
              /\ resp' = Response("create_case_study", 201, body, [id |-> inserted_id(casestudy')])
              /\ issued' = issued \cup {<<"casestudy", inserted_id(casestudy')>>}
              /\ UNCHANGED <<blogpost, project, chat, now, locals>>

CreateProject ==
  \E body \in ProjectBodies :
    IF ~IsValid(Project, body)
      THEN /\ resp' = Response("create_project", 422, body, <<>>)
           /\ UNCHANGED <<store, now, locals, issued>>
      ELSE \/ /\ resp' = ServerError("create_project", body, FALSE)
              /\ UNCHANGED <<store, now, locals, issued>>
           \/ /\ ContentCount < MaxContent
              /\ \E tick \in Stamps :
                   project' = create_document("project", project, Parse(Project, body), tick)
              /\ resp' = Response("create_project", 201, body, [id |-> inserted_id(project')])
              /\ issued' = issued \cup {<<"project", inserted_id(project')>>}
              /\ UNCHANGED <<blogpost, casestudy, chat, now, locals>>

(***************************************************************************)
(* main.py: assistant_chat, one step per store call.                       *)
(***************************************************************************)
\* Chat with the two roles taken for each other
Chat_roles_swapped(role, message) ==
  [role |-> IF role = "user" THEN "assistant" ELSE "user", message |-> message]

Chat(role, message) == [role |-> role, message |-> message]

\* the request ends: its locals die
Finish(w) ==
  /\ pc' = [pc EXCEPT ![w] = "idle"]
  /\ req_message' = [req_message EXCEPT ![w] = <<>>]
  /\ user_msg' = [user_msg EXCEPT ![w] = <<>>]
  /\ blogs' = [blogs EXCEPT ![w] = <<>>]
  /\ cases' = [cases EXCEPT ![w] = <<>>]
  /\ projs' = [projs EXCEPT ![w] = <<>>]
  /\ best_items' = [best_items EXCEPT ![w] = <<>>]

\* ChatBegin that saves req.message, not user_msg
ChatBegin_saves_raw(w) ==
  /\ pc[w] = "idle"
  /\ \E m \in Messages :
       LET msg == strip(m)
       IN  IF msg = <<>>
             THEN /\ resp' = Response("assistant_chat", 400, m, <<>>)
                  /\ UNCHANGED <<store, now, locals, issued>>
             ELSE \/ /\ resp' = ServerError("assistant_chat", m, FALSE)
                     /\ UNCHANGED <<store, now, locals, issued>>
                  \/ /\ Len(chat) < MaxChat
                     /\ \E tick \in Stamps :
                          chat' = create_document("chat", chat, Chat("user", m), tick)
                     /\ pc' = [pc EXCEPT ![w] = "fetch_blogs"]
                     /\ req_message' = [req_message EXCEPT ![w] = m]
                     /\ user_msg' = [user_msg EXCEPT ![w] = msg]
                     /\ resp' = NoResponse
                     /\ UNCHANGED <<content, now, blogs, cases, projs, best_items,
                                    issued>>

\* lines 127-132: strip, reject the blank message, save the user message
ChatBegin(w) ==
  /\ pc[w] = "idle"
  /\ \E m \in Messages :
       LET msg == strip(m)
       IN  IF msg = <<>>
             THEN /\ resp' = Response("assistant_chat", 400, m, <<>>)
                  /\ UNCHANGED <<store, now, locals, issued>>
             ELSE \/ /\ resp' = ServerError("assistant_chat", m, FALSE)
                     /\ UNCHANGED <<store, now, locals, issued>>
                  \/ /\ Len(chat) < MaxChat
                     /\ \E tick \in Stamps :
                          chat' = create_document("chat", chat, Chat("user", msg), tick)
                     /\ pc' = [pc EXCEPT ![w] = "fetch_blogs"]
                     /\ req_message' = [req_message EXCEPT ![w] = m]
                     /\ user_msg' = [user_msg EXCEPT ![w] = msg]
                     /\ resp' = NoResponse
                     /\ UNCHANGED <<content, now, blogs, cases, projs, best_items,
                                    issued>>

\* line 153
FetchBlogs(w) ==
  /\ pc[w] = "fetch_blogs"
  /\ \E ok \in BOOLEAN :
       IF ok
         THEN /\ blogs' = [blogs EXCEPT ![w] =
                 Take(fetch_titles(get_documents(blogpost), BlogFields), FetchLimit)]
              /\ pc' = [pc EXCEPT ![w] = "fetch_cases"]
              /\ resp' = NoResponse
              /\ UNCHANGED <<req_message, user_msg, cases, projs, best_items>>
         ELSE /\ Finish(w)
              /\ resp' = ServerError("assistant_chat", req_message[w], TRUE)
  /\ UNCHANGED <<store, now, issued>>

\* line 154
FetchCases(w) ==
  /\ pc[w] = "fetch_cases"
  /\ \E ok \in BOOLEAN :
       IF ok
         THEN /\ cases' = [cases EXCEPT ![w] =
                 Take(fetch_titles(get_documents(casestudy), CaseFields), FetchLimit)]
              /\ pc' = [pc EXCEPT ![w] = "fetch_projs"]
              /\ resp' = NoResponse
              /\ UNCHANGED <<req_message, user_msg, blogs, projs, best_items>>
         ELSE /\ Finish(w)
              /\ resp' = ServerError("assistant_chat", req_message[w], TRUE)
  /\ UNCHANGED <<store, now, issued>>

\* lines 155-165: the last fetch, the corpus, the tokens, the ranking
FetchProjs(w) ==
  /\ pc[w] = "fetch_projs"
  /\ \E ok \in BOOLEAN :
       IF ok
         THEN /\ projs' = [projs EXCEPT ![w] =
                 Take(fetch_titles(get_documents(project), ProjectFields), FetchLimit)]
              /\ best_items' = [best_items EXCEPT ![w] =
                   best(blogs[w] \o cases[w] \o projs'[w], tokens(user_msg[w]))]
              /\ pc' = [pc EXCEPT ![w] = "reply"]
              /\ resp' = NoResponse
              /\ UNCHANGED <<req_message, user_msg, blogs, cases>>
         ELSE /\ Finish(w)
              /\ resp' = ServerError("assistant_chat", req_message[w], TRUE)
  /\ UNCHANGED <<store, now, issued>>

\* lines 167-187: build the reply, save it, return it
ChatReply(w) ==
  /\ pc[w] = "reply"
  /\ LET reply == reply_text(best_items[w])
     IN  \/ /\ \E tick \in Stamps :
                  chat' = create_document("chat", chat, Chat("assistant", reply), tick)
            /\ resp' = Response("assistant_chat", 200, req_message[w],
                                [reply |-> reply])
         \/ /\ resp' = ServerError("assistant_chat", req_message[w], TRUE)
            /\ UNCHANGED chat
  /\ Finish(w)
  /\ UNCHANGED <<content, now, issued>>

Next ==
  \/ Tick
  \/ ListBlogPosts
  \/ ListCaseStudies
  \/ ListProjects
  \/ CreateBlogPost
  \/ CreateCaseStudy
  \/ CreateProject
  \/ \E w \in Workers : ChatBegin(w)
  \/ \E w \in Workers : FetchBlogs(w)
  \/ \E w \in Workers : FetchCases(w)
  \/ \E w \in Workers : FetchProjs(w)
  \/ \E w \in Workers : ChatReply(w)

Spec == Init /\ [][Next]_vars

(***************************************************************************)
(* SpecCrud: the list and create endpoints and the clock.                  *)
(***************************************************************************)
NextCrud ==
  \/ Tick
  \/ ListBlogPosts
  \/ ListCaseStudies
  \/ ListProjects
  \/ CreateBlogPost
  \/ CreateCaseStudy
  \/ CreateProject

SpecCrud == Init /\ [][NextCrud]_vars

(***************************************************************************)
(* Stores the create endpoints can have built before a chat request comes. *)
(***************************************************************************)
ValidBodies(schema, bodies) == {b \in bodies : IsValid(schema, b)}

\* the collection after one create_document per entry <<body, tick>>
RECURSIVE Build(_, _, _)
Build(coll, schema, entries) ==
  IF entries = <<>> THEN <<>>
  ELSE LET last == entries[Len(entries)]
       IN  create_document(coll,
                           Build(coll, schema, SubSeq(entries, 1, Len(entries) - 1)),
                           Parse(schema, last[1]), last[2])

\* the collections of n documents, stamped with the clock readings of stamps
Stamped(coll, schema, bodies, n, stamps) ==
  {Build(coll, schema, e) : e \in [1..n -> ValidBodies(schema, bodies) \X stamps]}

\* the collections of n documents, all stamped at StartTick
Stored(coll, schema, bodies, n) == Stamped(coll, schema, bodies, n, {StartTick})

\* the collections of FetchLimit + 1 documents: FetchLimit alike, then one more
Long(coll, schema, bodies) ==
  {Build(coll, schema,
         [i \in 1..(FetchLimit + 1) |-> <<IF i > FetchLimit THEN b2 ELSE b1, StartTick>>]) :
     b1 \in ValidBodies(schema, bodies), b2 \in ValidBodies(schema, bodies)}

StoredBlogs(n) == Stored("blogpost", BlogPost, BlogBodies, n)
StoredCases(n) == Stored("casestudy", CaseStudy, CaseBodies, n)
StoredProjects(n) == Stored("project", Project, ProjectBodies, n)

IdsOf(coll, docs) == {<<coll, str_id(docs[i]._id)>> : i \in 1..Len(docs)}

InitStored ==
  /\ chat = <<>>
  /\ now = StartTick
  /\ issued = IdsOf("blogpost", blogpost) \cup IdsOf("casestudy", casestudy)
                \cup IdsOf("project", project)
  /\ InitLocals

(***************************************************************************)
(* SpecList: the list endpoints over the stores of at most MaxListDocs     *)
(* content documents.  A create request reads the clock before it inserts, *)
(* so the documents of a collection need not be in the order of their      *)
(* timestamps.                                                             *)
(***************************************************************************)
ListStamps == {StartTick, StartTick + 1}

InitList ==
  /\ \E a, b, c \in 0..MaxListDocs :
       /\ a + b + c < MaxListDocs + 1
       /\ blogpost \in Stamped("blogpost", BlogPost, BlogBodies, a, ListStamps)
       /\ casestudy \in Stamped("casestudy", CaseStudy, CaseBodies, b, ListStamps)
       /\ project \in Stamped("project", Project, ProjectBodies, c, ListStamps)
  /\ chat = <<>>
  /\ now = StartTick + 1
  /\ issued = IdsOf("blogpost", blogpost) \cup IdsOf("casestudy", casestudy)
                \cup IdsOf("project", project)
  /\ InitLocals

NextList ==
  \/ ListBlogPosts
  \/ ListCaseStudies
  \/ ListProjects

SpecList == InitList /\ [][NextList]_vars

(***************************************************************************)
(* SpecChat: concurrent chat requests over the stores that hold at most    *)
(* one document in every content collection.                               *)
(***************************************************************************)
InitChat ==
  /\ \E a, b, c \in 0..1 :
       /\ blogpost \in StoredBlogs(a)
       /\ casestudy \in StoredCases(b)
       /\ project \in StoredProjects(c)
  /\ InitStored

NextChat ==
  \/ \E w \in Workers : ChatBegin(w)
  \/ \E w \in Workers : FetchBlogs(w)
  \/ \E w \in Workers : FetchCases(w)
  \/ \E w \in Workers : FetchProjs(w)
  \/ \E w \in Workers : ChatReply(w)

SpecChat == InitChat /\ [][NextChat]_vars

(***************************************************************************)
(* SpecRank: one chat request at a time over the stores of at most         *)
(* MaxRankDocs content documents, and over the stores with one collection  *)
(* longer than FetchLimit.                                                 *)
(***************************************************************************)
InitRank ==
  /\ \/ \E a, b, c \in 0..MaxRankDocs :
          /\ a + b + c < MaxRankDocs + 1
          /\ blogpost \in StoredBlogs(a)
          /\ casestudy \in StoredCases(b)
          /\ project \in StoredProjects(c)
     \/ \E b, c \in 0..1 :
          /\ blogpost \in Long("blogpost", BlogPost, BlogBodies)
          /\ casestudy \in StoredCases(b)
          /\ project \in StoredProjects(c)
     \/ \E a, c \in 0..1 :
          /\ blogpost \in StoredBlogs(a)
          /\ casestudy \in Long("casestudy", CaseStudy, CaseBodies)
          /\ project \in StoredProjects(c)
     \/ \E a, b \in 0..1 :
          /\ blogpost \in StoredBlogs(a)
          /\ casestudy \in StoredCases(b)
          /\ project \in Long("project", Project, ProjectBodies)
  /\ InitStored

NextRank ==
  \/ ChatBegin(1)
  \/ FetchBlogs(1)
  \/ FetchCases(1)
  \/ FetchProjs(1)
  \/ ChatReply(1)

SpecRank == InitRank /\ [][NextRank]_vars

(***************************************************************************)
(* What the claims speak of.                                               *)
(***************************************************************************)
CreateOps == {"create_blog_post", "create_case_study", "create_project"}
ListOps == {"list_blog_posts", "list_case_studies", "list_projects"}

CollectionOf(op) ==
  CASE op \in {"create_blog_post", "list_blog_posts"} -> "blogpost"
    [] op \in {"create_case_study", "list_case_studies"} -> "casestudy"
    [] op \in {"create_project", "list_projects"} -> "project"

Documents(coll) ==
  CASE coll = "blogpost" -> blogpost
    [] coll = "casestudy" -> casestudy
    [] coll = "project" -> project

\* what GET of the collection returns in this state
Listing(coll) ==
  CASE coll = "blogpost" -> list_blog_posts(get_documents(blogpost))
    [] coll = "casestudy" -> list_case_studies(get_documents(casestudy))
    [] coll = "project" -> list_projects(get_documents(project))

HasId(items, id) == \E i \in 1..Len(items) : Get(items[i], "id", <<>>) = id

\* the required text fields of section 3 of the specification
RequiredText(op) ==
  CASE op = "create_blog_post" -> {"title", "content"}
    [] op = "create_case_study" -> {"title", "summary", "problem", "solution", "impact"}
    [] op = "create_project" -> {"title", "description"}

UrlFields == {"cover_url", "repo_url", "live_url"}
UrlCollections == {"images", "links"}

Malformed(u) == ~(u.scheme \in {"http", "https"} /\ u.host # "")

CarriesMalformedUrl(body) ==
  \/ \E k \in UrlFields \cap DOMAIN body : Malformed(body[k])
  \/ \E k \in UrlCollections \cap DOMAIN body : \E i \in DOMAIN body[k] : Malformed(body[k][i])

Rejectable(op, body) ==
  \/ \E k \in RequiredText(op) : k \notin DOMAIN body
  \/ CarriesMalformedUrl(body)

\* the place in docs of the document whose identifier prints as id, 0 if none
PlaceOf(docs, id) ==
  IF \E i \in 1..Len(docs) : str_id(docs[i]._id) = id
    THEN CHOOSE i \in 1..Len(docs) : str_id(docs[i]._id) = id
    ELSE 0

\* items is docs, serialised, in some order
ListsAll(items, docs) ==
  /\ Len(items) = Len(docs)
  /\ {PlaceOf(docs, Get(items[k], "id", <<>>)) : k \in 1..Len(items)} = 1..Len(docs)
  /\ \A k \in 1..Len(items) :
       Get(items[k], "title", <<>>) = docs[PlaceOf(docs, items[k].id)].title

\* C1: a create request with a valid body whose insert is carried out is
\* answered 201 with a non-empty identifier, and every identifier a create
\* request has returned is the id of a document of GET's list of that
\* collection, in the state of the answer and in every later state.
C1_CreatedIsListed ==
  /\ \A e \in issued : e[2] # <<>> /\ HasId(Listing(e[1]), e[2])
  /\ (resp.op \in CreateOps /\ resp.status # 500 /\ ~Rejectable(resp.op, resp.request))
       => /\ resp.status = 201
          /\ resp.body.id # <<>>
          /\ <<CollectionOf(resp.op), resp.body.id>> \in issued
  /\ (resp.op \in ListOps /\ resp.status = 200)
       => \A e \in issued : e[1] = CollectionOf(resp.op) => HasId(resp.body, e[2])

C1_Witness ==
  /\ resp.op = "list_case_studies"
  /\ resp.status = 200
  /\ Len(resp.body) = 2
  /\ Cardinality(issued) = 2

\* C8: a create request whose body lacks a required text field or carries a
\* malformed URL is answered 422 and the step changes no collection.
C8_InvalidBodyRejected ==
  [][(resp'.op \in CreateOps /\ Rejectable(resp'.op, resp'.request))
       => (resp'.status = 422 /\ UNCHANGED store)]_vars

C8_Witness ==
  /\ resp.op = "create_project"
  /\ resp.status = 422
  /\ "description" \notin DOMAIN resp.request
  /\ ContentCount > 0

C7_NewestFirst ==
  (resp.op \in {"list_blog_posts", "list_case_studies"} /\ resp.status = 200)
    => LET docs == Documents(CollectionOf(resp.op))
       IN  /\ ListsAll(resp.body, docs)
           /\ \A k \in 1..(Len(resp.body) - 1) :
                /\ ~StrLess(resp.body[k].created_at, resp.body[k + 1].created_at)
                /\ Micros(docs[PlaceOf(docs, resp.body[k].id)].created_at)
                     >= Micros(docs[PlaceOf(docs, resp.body[k + 1].id)].created_at)
                /\ resp.body[k].created_at = resp.body[k + 1].created_at
                     => PlaceOf(docs, resp.body[k].id) < PlaceOf(docs, resp.body[k + 1].id)

C7_Witness ==
  /\ resp.op = "list_blog_posts"
  /\ resp.status = 200
  /\ Len(blogpost) = 3
  /\ Micros(blogpost[1].created_at) < Micros(blogpost[2].created_at)
  /\ blogpost[3].created_at = blogpost[2].created_at
  /\ resp.body[1].id = str_id(blogpost[2]._id)
  /\ resp.body[2].id = str_id(blogpost[3]._id)

Blank(m) == \A i \in 1..Len(m) : m[i] \in Whitespace

\* C2: a chat request whose message is empty or all whitespace is answered
\* 400 and the step changes no collection.
C2_BlankRejected ==
  [][(resp'.op = "assistant_chat" /\ Blank(resp'.request))
       => (resp'.status = 400 /\ UNCHANGED store)]_vars

C2_Witness ==
  /\ resp.op = "assistant_chat"
  /\ resp.status = 400
  /\ resp.request = <<" ", "tab">>
  /\ Len(chat) > 0

\* m is raw without the whitespace at its two ends
IsStripped(m, raw) ==
  /\ m # <<>>
  /\ m[1] \notin Whitespace
  /\ m[Len(m)] \notin Whitespace
  /\ \E i \in 1..Len(raw) :
       /\ SubSeq(raw, i, i + Len(m) - 1) = m
       /\ Blank(SubSeq(raw, 1, i - 1))
       /\ Blank(SubSeq(raw, i + Len(m), Len(raw)))

\* chat' is chat and one more document, of this role and message
Appends(role, msg) ==
  /\ Len(chat') = Len(chat) + 1
  /\ SubSeq(chat', 1, Len(chat)) = chat
  /\ chat'[Len(chat')].role = role
  /\ chat'[Len(chat')].message = msg

\* C3: of a chat request with a non-blank message, the first step appends one
\* Chat document of role user that holds the stripped message, and has read no
\* content collection; the steps that read append nothing; the step that
\* returns the reply appends one Chat document of role assistant that holds
\* the reply returned; no step changes a content collection.
C3_TwoChatDocuments ==
  [][/\ \A w \in Workers :
          /\ (pc[w] = "idle" /\ pc'[w] # "idle")
               => /\ pc'[w] = "fetch_blogs"
                  /\ IsStripped(chat'[Len(chat')].message, req_message'[w])
                  /\ Appends("user", chat'[Len(chat')].message)
                  /\ blogs'[w] = <<>> /\ cases'[w] = <<>> /\ projs'[w] = <<>>
          /\ (pc[w] \in {"fetch_blogs", "fetch_cases", "fetch_projs"} /\ pc'[w] # pc[w])
               => UNCHANGED chat
          /\ (pc[w] = "reply" /\ pc'[w] = "idle" /\ resp'.status = 200)
               => Appends("assistant", resp'.body.reply)
     /\ UNCHANGED content]_vars

C3_Witness ==
  /\ resp.op = "assistant_chat"
  /\ resp.status = 200
  /\ Len(chat) = 4
  /\ chat[1].role = "user" /\ chat[2].role = "user"
  /\ chat[3].role = "assistant" /\ chat[4].role = "assistant"
  /\ chat[1].message = Aba \o <<" ">> \o bb
  /\ chat[4].message # GenericReply
  /\ ContentCount > 0

CountRole(role) == Cardinality({i \in 1..Len(chat) : chat[i].role = role})

InFlight == Cardinality({w \in Workers : pc[w] # "idle"})

\* C10: every Chat document has role user or assistant; the assistant
\* documents and the requests in flight together are no more than the user
\* documents; and after a request has failed past its first write there is a
\* user document more than that.
C10_UserBeforeAssistant ==
  /\ \A i \in 1..Len(chat) : chat[i].role \in {"user", "assistant"}
  /\ CountRole("assistant") <= CountRole("user")
  /\ CountRole("assistant") + InFlight <= CountRole("user")
  /\ (resp.op = "assistant_chat" /\ resp.status = 500 /\ resp.after_write)
       => CountRole("assistant") + InFlight < CountRole("user")

C10_Witness ==
  /\ resp.op = "assistant_chat"
  /\ resp.status = 500
  /\ resp.after_write
  /\ InFlight = 0
  /\ Len(chat) = 3
  /\ chat[1].role = "user" /\ chat[2].role = "user" /\ chat[3].role = "assistant"

ChatAnswered == resp.op = "assistant_chat" /\ resp.status = 200

Smaller(a, b) == IF a < b THEN a ELSE b

\* t occurs in text
Occurs(t, text) ==
  \E i \in 1..(Len(text) - Len(t) + 1) : SubSeq(text, i, i + Len(t) - 1) = t

\* the whitespace-separated words of m longer than 2 characters, lowercased
TokensOf(m) ==
  {lower(SubSeq(m, i, j)) :
     <<i, j>> \in {p \in (1..Len(m)) \X (1..Len(m)) :
                    /\ p[2] - p[1] + 1 > 2
                    /\ \A k \in p[1]..p[2] : m[k] \notin Whitespace
                    /\ p[1] = 1 \/ m[p[1] - 1] \in Whitespace
                    /\ p[2] = Len(m) \/ m[p[2] + 1] \in Whitespace}}

\* the number of distinct tokens that occur in the item's lowercased title,
\* a space, and snippet
ScoreOf(item, toks) ==
  Cardinality({t \in toks : Occurs(t, lower(item.title \o <<" ">> \o item.snippet))})

\* the reply's line of an item: its title and snippet
LineOf(item) == <<"-", " ">> \o item.title \o <<":", " ">> \o item.snippet

\* the items of every stored document, and the corpus a request reads while
\* the content collections stay as they are
AllBlogs == fetch_titles(get_documents(blogpost), BlogFields)
AllCases == fetch_titles(get_documents(casestudy), CaseFields)
AllProjects == fetch_titles(get_documents(project), ProjectFields)
FetchedCorpus ==
  Take(AllBlogs, FetchLimit) \o Take(AllCases, FetchLimit) \o Take(AllProjects, FetchLimit)

\* the place in the corpus of the i-th stored project, i <= FetchLimit
ProjectPlace(i) ==
  Smaller(Len(blogpost), FetchLimit) + Smaller(Len(casestudy), FetchLimit) + i

\* corpus[j] ranks before corpus[i]
RanksBefore(corpus, toks, j, i) ==
  \/ ScoreOf(corpus[j], toks) > ScoreOf(corpus[i], toks)
  \/ ScoreOf(corpus[j], toks) = ScoreOf(corpus[i], toks) /\ j < i

RankOf(corpus, toks, i) ==
  Cardinality({j \in 1..Len(corpus) : RanksBefore(corpus, toks, j, i)})

\* the reply names the i-th stored project
NamesProject(i) == Occurs(LineOf(AllProjects[i]), resp.body.reply)

\* the i-th stored project's title is a token of the message
TitleIsToken(i) == lower(project[i].title) \in TokensOf(resp.request)

\* C4 as stated: whenever a token of the message is the lowercased title of a
\* stored project, the reply holds that project's title and snippet line.
C4_Original ==
  ChatAnswered => \A i \in 1..Len(project) : TitleIsToken(i) => NamesProject(i)

\* C4, amended: whenever a token of the message is the lowercased title of a
\* stored project that is among the first FetchLimit projects the store
\* returns, and fewer than TopN items of the corpus rank before it (a higher
\* score, or the same score and an earlier place in fetch order), the reply
\* holds that project's title and snippet line.
C4_MatchingProjectListed ==
  ChatAnswered =>
    \A i \in 1..Len(project) :
      ( /\ TitleIsToken(i)
        /\ i <= FetchLimit
        /\ RankOf(FetchedCorpus, TokensOf(resp.request), ProjectPlace(i)) < TopN )
        => NamesProject(i)

C4_Witness ==
  /\ ChatAnswered
  /\ Len(FetchedCorpus) > TopN
  /\ \E i \in 1..Len(project) :
       /\ TitleIsToken(i)
       /\ i <= FetchLimit
       /\ ProjectPlace(i) > TopN
       /\ RankOf(FetchedCorpus, TokensOf(resp.request), ProjectPlace(i)) < TopN
       /\ NamesProject(i)

\* the lines of a text
RECURSIVE Lines(_)
Lines(s) ==
  IF \E i \in 1..Len(s) : s[i] = "nl"
    THEN LET i == CHOOSE i \in 1..Len(s) : s[i] = "nl" /\ \A j \in 1..(i - 1) : s[j] # "nl"
         IN  <<SubSeq(s, 1, i - 1)>> \o Lines(SubSeq(s, i + 1, Len(s)))
    ELSE <<s>>

\* C5: a chat request that is answered gets the generic reply exactly when
\* the three content collections are empty; otherwise the reply is the header
\* line, one line per selected item (TopN of them, or the whole corpus when it
\* is smaller), and the closing line, whatever the items score.
C5_GenericOnlyWhenEmpty ==
  ChatAnswered =>
    LET lines == Lines(resp.body.reply)
    IN  /\ (resp.body.reply = GenericReply) <=> (ContentCount = 0)
        /\ ContentCount > 0 =>
             /\ Len(lines) = 2 + Smaller(TopN, Len(FetchedCorpus))
             /\ lines[1] = HighlightsHeader
             /\ lines[Len(lines)] = ClosingLine
             /\ \A k \in 2..(Len(lines) - 1) :
                  \E j \in 1..Len(FetchedCorpus) : lines[k] = LineOf(FetchedCorpus[j])

C5_Witness ==
  /\ ChatAnswered
  /\ ContentCount > 0
  /\ TokensOf(resp.request) # {}
  /\ \A j \in 1..Len(FetchedCorpus) :
       ScoreOf(FetchedCorpus[j], TokensOf(resp.request)) = 0
  /\ Lines(resp.body.reply)[1] = HighlightsHeader

\* the place in the corpus of the item of this id, 0 when there is none
PlaceIn(corpus, id) ==
  IF \E i \in 1..Len(corpus) : Get(corpus[i], "id", <<>>) = id
    THEN CHOOSE i \in 1..Len(corpus) : Get(corpus[i], "id", <<>>) = id
    ELSE 0

\* items are the first FetchLimit documents of docs, in the store's order
FirstOf(items, docs) ==
  /\ Len(items) = Smaller(FetchLimit, Len(docs))
  /\ \A i \in 1..Len(items) : Get(items[i], "id", <<>>) = str_id(docs[i]._id)

\* the selection of TopN items of the corpus by descending score, then fetch order
IsTopOf(sel, corpus, toks) ==
  LET place == [k \in 1..Len(sel) |-> PlaceIn(corpus, Get(sel[k], "id", <<>>))]
  IN  /\ Len(sel) = Smaller(TopN, Len(corpus))
      /\ \A k \in 1..Len(sel) : place[k] # 0 /\ corpus[place[k]] = sel[k]
      /\ \A k \in 1..(Len(sel) - 1) :
           RanksBefore(corpus, toks, place[k], place[k + 1])
      /\ \A j \in 1..Len(corpus) :
           (\A k \in 1..Len(sel) : place[k] # j)
             => \A k \in 1..Len(sel) : RanksBefore(corpus, toks, place[k], j)

\* C9: when the request has read the three collections, its corpus is the
\* first FetchLimit blog posts, then case studies, then projects, in the
\* store's order, and the selected items are TopN of it (all of it when it is
\* smaller), by descending number of distinct message tokens occurring in the
\* lowercased title, space and snippet, equal scores in fetch order: every
\* selected item ranks before every unselected one.
C9_TopThreeByScore ==
  pc[1] = "reply" =>
    /\ FirstOf(blogs[1], blogpost)
    /\ FirstOf(cases[1], casestudy)
    /\ FirstOf(projs[1], project)
    /\ IsTopOf(best_items[1], blogs[1] \o cases[1] \o projs[1], TokensOf(user_msg[1]))

C9_Witness ==
  /\ pc[1] = "reply"
  /\ LET corpus == blogs[1] \o cases[1] \o projs[1]
         toks == TokensOf(user_msg[1])
         sel == best_items[1]
     IN  /\ Len(corpus) > TopN
         /\ Len(sel) = TopN
         /\ PlaceIn(corpus, sel[1].id) > PlaceIn(corpus, sel[TopN].id)
         /\ ScoreOf(sel[1], toks) > ScoreOf(sel[TopN], toks)
         /\ \E j \in 1..Len(corpus) :
              /\ \A k \in 1..TopN : sel[k] # corpus[j]
              /\ ScoreOf(corpus[j], toks) = ScoreOf(sel[TopN], toks)

====
